---- MODULE Spec2Model ----
(***************************************************************************)
(* A model of the IBS tracker (src/src/App.tsx and its forms).             *)
(*                                                                         *)
(* Time is scaled: one clock tick stands for a span of milliseconds, a     *)
(* minute has MinLen ticks and a local calendar day MinsPerDay minutes.    *)
(* The local time zone is UTC, so timestamp 0 is local midnight of day 0.  *)
(* A "YYYY-MM-DDTHH:mm" string of a datetime-local input is the number of  *)
(* the local minute it names (InvalidInput for text that is no date), a    *)
(* toDateString() text is the day number, and a uuid is the number of the  *)
(* call of uuidv4 that made it.                                            *)
(* A year has DaysPerYear days and timestamp 0 lies in year EpochYear. A   *)
(* "YYYY-MM-DD" string is the sequence of its characters: the decimal      *)
(* digits of the year as toString gives them, a dash, and the day of the   *)
(* year (standing for month and day) padded to two digits.                 *)
(* Fields no operation reads (notes, quantity, bowelMovement, urgency) are *)
(* left out of the entries.                                                *)
(***************************************************************************)
EXTENDS Integers, Sequences, FiniteSets

VARIABLES
    logs,                   \* App: const [logs, setLogs]
    activeView,             \* App: const [activeView, setActiveView]
    editingEntry,           \* App: const [editingEntry, setEditingEntry]
    stressLoggedToday,      \* App: const [stressLoggedToday, ...]
    notificationPermission, \* App: const [notificationPermission, ...]
    lastNotificationDate,   \* App: const [lastNotificationDate, ...]
    now,                    \* the wall clock (Date.now(), new Date())
    nextId,                 \* number of uuids generated so far, plus one
    chart,                  \* what DataChart renders, NoChart if not shown
    download,               \* the file the last step offered for download
    deletedIds,             \* history: ids handed to a delete that removed
    notifiedDays,           \* history: reminders shown so far, per day
    lastOp,                 \* history: what the last step did
    lastInput,              \* history: the input the last step was given
    dateTimeField,          \* the editedDateTime state the shown form was
                            \* given by its effect over [initialData]
    browserPermission,      \* the browser: Notification.permission, or
                            \* "unsupported" without Notification in window
    promptPending           \* the browser: a promise of requestPermission()
                            \* is not yet settled

vars == <<logs, activeView, editingEntry, stressLoggedToday,
          notificationPermission, lastNotificationDate, now, nextId,
          chart, download, deletedIds, notifiedDays, lastOp, lastInput,
          dateTimeField, browserPermission, promptPending>>

(* ------------------------------ bounds --------------------------------- *)
MinLen == 2
MinsPerDay == 2
NumDays == 2
MaxId == 2
MaxSeverity == 1
MaxBloating == 1
MaxFormBloating == 0
StartNow == 0
ClockStep == 3
EpochYear == 9
DaysPerYear == 2
ChartDays == 3
ChartTicks == 2
MaxChartLogs == 3
MaxLiveLogs == 1
MaxLogsAtSettings == 0
MaxDeleteLogs == 3

DayLen == MinsPerDay * MinLen
MaxNow == NumDays * DayLen - 1
MaxMinute == MaxNow \div MinLen

(* --------------------------- JavaScript values ------------------------- *)
NaN == -1
undefined == -1
InvalidInput == -1
NoId == 0
NoDate == -1
NoValue == -2
Dash == -1
null == [type |-> "null"]
NoInput == [form |-> "none", isEditing |-> FALSE,
            data |-> [id |-> NoId, timestamp |-> 0]]

NoDownload == [name |-> NoDate, content |-> <<>>]

isNaN(x) == x = NaN
\* JavaScript truthiness of a number: 0 and NaN are falsy.
truthy(x) == x # 0 /\ ~isNaN(x)

BrowserPermissions == {"unsupported", "default", "granted", "denied"}

NavIds == {"log", "addSymptom", "addIntake", "addStress", "chart"}
SeverityLevels == 0..MaxSeverity
BloatingLevels == 0..MaxBloating
\* The options of the bloating select that the user of the symptom form
\* picks; the stored collections of ChartInit have all of BloatingLevels.
FormBloatingLevels == 0..MaxFormBloating
StressLevels == 0..MaxSeverity
DateTimeInputs == (0..MaxMinute) \cup {InvalidInput}
Items == {" ", " tea "}

(* ------------------------------ dateUtils ------------------------------ *)
DayOf(timestamp) == timestamp \div DayLen

isToday(timestamp) == DayOf(timestamp) = DayOf(now)

getFullYear(timestamp) == EpochYear + DayOf(timestamp) \div DaysPerYear

\* getMonth() and getDate() taken together.
getDayOfYear(timestamp) == DayOf(timestamp) % DaysPerYear

\* Number.prototype.toString and the template literal's conversion of a
\* number that is not negative: its decimal digits.
RECURSIVE toString(_)
toString(n) ==
    IF n < 10 THEN <<n>> ELSE toString(n \div 10) \o <<n % 10>>

\* String.prototype.padStart(2, '0').
padStart(str) == IF Len(str) < 2 THEN <<0>> \o str ELSE str

formatTimestampToDateString(timestamp) ==
    toString(getFullYear(timestamp)) \o <<Dash>>
        \o padStart(toString(getDayOfYear(timestamp)))

\* String.prototype.localeCompare on strings of digits and dashes: the
\* first character that differs decides, a dash sorting before a digit and
\* a prefix before the longer string.
RECURSIVE localeCompare(_, _)
localeCompare(a, b) ==
    IF a = <<>> THEN (IF b = <<>> THEN 0 ELSE -1)
    ELSE IF b = <<>> THEN 1
    ELSE IF Head(a) < Head(b) THEN -1
    ELSE IF Head(a) > Head(b) THEN 1
    ELSE localeCompare(Tail(a), Tail(b))

\* new Date().toISOString().split('T')[0]: the UTC calendar day.
toISODateString(t) == DayOf(t)

getHours(t) == ((t % DayLen) * 24) \div DayLen

toDateString(t) == DayOf(t)

\* Date.prototype.toISOString writes a year of 0 to 9999 with four digits
\* and any later one with a sign and six digits, so that slice(0, 16) cuts
\* the text of such a date before its minutes. In the model's scale the
\* years that have as many digits as EpochYear are the four-digit ones.
sliceCutsMinutes(timestamp) ==
    Len(toString(getFullYear(timestamp))) > Len(toString(EpochYear))

\* The text of a datetime-local field is modelled by the number of the local
\* minute it names, a text that names none by InvalidInput. The seconds and
\* milliseconds are cut off by slice(0, 16).
formatTimestampForInput(timestamp) ==
    IF isNaN(timestamp) THEN now \div MinLen
    ELSE IF sliceCutsMinutes(timestamp) THEN InvalidInput
    ELSE timestamp \div MinLen

parseInputTimestamp(dateTimeString) ==
    IF dateTimeString = InvalidInput THEN NaN ELSE dateTimeString * MinLen

(* ------------------------------ helpers -------------------------------- *)
Ids(ls) == {ls[i].id : i \in 1..Len(ls)}

IsStress(e) == e.type = "stress"

\* Array.prototype.sort((a, b) => b.timestamp - a.timestamp): stable,
\* descending by timestamp.
insertDescending(sorted, e) ==
    LET k == Cardinality({j \in 1..Len(sorted) :
                             sorted[j].timestamp >= e.timestamp})
    IN SubSeq(sorted, 1, k) \o <<e>> \o SubSeq(sorted, k + 1, Len(sorted))

RECURSIVE sortInto(_, _)
sortInto(rest, sorted) ==
    IF rest = <<>> THEN sorted
    ELSE sortInto(Tail(rest), insertDescending(sorted, Head(rest)))

\* Mutant: the array is stored in the order it was built in.
sortOmitted(ls) == ls

sortDescending(ls) == sortInto(ls, <<>>)

\* [...logs].sort((a, b) => a.timestamp - b.timestamp): stable, ascending
\* by timestamp.
insertAscending(sorted, e) ==
    LET k == Cardinality({j \in 1..Len(sorted) :
                             sorted[j].timestamp <= e.timestamp})
    IN SubSeq(sorted, 1, k) \o <<e>> \o SubSeq(sorted, k + 1, Len(sorted))

RECURSIVE sortAscendingInto(_, _)
sortAscendingInto(rest, sorted) ==
    IF rest = <<>> THEN sorted
    ELSE sortAscendingInto(Tail(rest), insertAscending(sorted, Head(rest)))

\* Mutant: the logs are processed in the order they are given in.
sortSkipped(ls) == ls

\* Mutant: the comparator is b.timestamp - a.timestamp.
sortNewestFirst(ls) == sortDescending(ls)

sortAscending(ls) == sortAscendingInto(ls, <<>>)

Max(a, b) == IF a >= b THEN a ELSE b

\* String.prototype.trim on the item texts of Items.
trim(s) == IF s = " tea " THEN "tea" ELSE IF s = " " THEN "" ELSE s

(* ------------------------- App: stress status -------------------------- *)
\* The value checkStressLogStatus hands to setStressLoggedToday, computed
\* from the logs its closure holds.
checkStressLogStatus(ls) ==
    LET lastStressLog == sortDescending(SelectSeq(ls, IsStress))
    IN IF Len(lastStressLog) > 0
       THEN isToday(lastStressLog[1].timestamp)
       ELSE FALSE

\* The effect of App runs after a render in which one of its dependencies
\* (logs, notificationPermission, stressLoggedToday, lastNotificationDate)
\* changed, and calls checkStressLogStatus on the logs of that render;
\* flagSet is the value the handler itself gave to setStressLoggedToday.
\* Mutant: the effect does not run again; the flag stays as the handler set
\* it.
useEffectNotRun(ls, flagSet, depsChanged) == flagSet

useEffect(ls, flagSet, depsChanged) ==
    IF depsChanged \/ flagSet # stressLoggedToday
    THEN checkStressLogStatus(ls)
    ELSE flagSet

\* The setter of useLocalStorage (src/hooks/useLocalStorage.ts is not among
\* the sources): it stores the value it is given, or the one the updater
\* computes from the previous value, and is the same function in every
\* render, so that it does not re-run the effect.
setStoredValue(value) == value

\* requestNotification: the value its three synchronous branches give to
\* setNotificationPermission; the fourth sets nothing at once.
requestNotification ==
    IF browserPermission = "unsupported" THEN "denied"
    ELSE IF browserPermission = "granted" THEN "granted"
    ELSE IF browserPermission # "denied" THEN notificationPermission
    ELSE "denied"

\* requestNotification reaches Notification.requestPermission().
requestsPermission ==
    /\ browserPermission # "unsupported"
    /\ browserPermission # "granted"
    /\ browserPermission # "denied"

\* The effect of App calls requestNotification() each time it runs; ran
\* says whether the step is followed by such a run.
effectRequest(ran) ==
    /\ notificationPermission' =
          IF ran THEN requestNotification ELSE notificationPermission
    /\ promptPending' =
          IF ran /\ requestsPermission THEN TRUE ELSE promptPending
    /\ UNCHANGED browserPermission

\* renderActiveView, case 'log': if (editingEntry) setEditingEntry(null).
renderActiveView(view, editing) == IF view = "log" THEN null ELSE editing

\* Mutant: the id is the first one the collection does not hold.
uuidFirstFree == CHOOSE k \in 1..(MaxId + 1) :
                    /\ k \notin Ids(logs)
                    /\ \A j \in 1..(k - 1) : j \in Ids(logs)

uuidv4 == nextId

(* --------------------------- App: CRUD --------------------------------- *)
\* Mutant: the spread comes last, { id, timestamp, ...entryData }.
newEntryCallerWins(entryData) == entryData

newEntry(entryData) ==
    [entryData EXCEPT !.id = uuidv4, !.timestamp = now]

createLogEntry(entryData) ==
    /\ nextId <= MaxId
    /\ logs' = setStoredValue(
          sortDescending(Append(logs, newEntry(entryData))))
    /\ activeView' = "log"
    /\ editingEntry' = null
    /\ stressLoggedToday' =
          useEffect(logs',
                    IF entryData.type = "stress" THEN TRUE
                    ELSE stressLoggedToday,
                    TRUE)
    /\ nextId' = nextId + 1
    /\ lastOp' = "create"
    /\ UNCHANGED deletedIds

\* Mutant: the updated entry is added, [...prevLogs, updatedEntryData].
replaceByIdAppending(ls, updatedEntryData) == Append(ls, updatedEntryData)

replaceById(ls, updatedEntryData) ==
    [i \in 1..Len(ls) |->
        IF ls[i].id = updatedEntryData.id THEN updatedEntryData ELSE ls[i]]

updateLogEntry(updatedEntryData) ==
    /\ logs' = setStoredValue(
          sortDescending(replaceById(logs, updatedEntryData)))
    /\ activeView' = "log"
    /\ editingEntry' = null
    /\ stressLoggedToday' =
          useEffect(logs',
                    IF updatedEntryData.type = "stress"
                    THEN checkStressLogStatus(logs)
                    ELSE stressLoggedToday,
                    TRUE)
    /\ lastOp' = "update"
    /\ UNCHANGED <<nextId, deletedIds>>

\* Mutant: the predicate is inverted, log.id === id.
filterOutIdInverted(ls, id) == SelectSeq(ls, LAMBDA log : log.id = id)

filterOutId(ls, id) == SelectSeq(ls, LAMBDA log : log.id # id)

deleteLogEntry(id) ==
    LET found == SelectSeq(logs, LAMBDA log : log.id = id)
        todaysStress == /\ Len(found) > 0
                        /\ found[1].type = "stress"
                        /\ isToday(found[1].timestamp)
    IN
    /\ logs' = setStoredValue(filterOutId(logs, id))
    /\ activeView' = "log"
    /\ editingEntry' = null
    /\ stressLoggedToday' =
          useEffect(logs',
                    IF todaysStress THEN checkStressLogStatus(logs)
                    ELSE stressLoggedToday,
                    TRUE)
    /\ deletedIds' = IF Len(found) > 0 THEN deletedIds \cup {id}
                     ELSE deletedIds
    /\ lastOp' = "delete"
    /\ UNCHANGED nextId

(* ------------------------- App: event handlers ------------------------- *)
isUpdate(data) == data.id # NoId /\ truthy(data.timestamp)

handleSaveSymptom(data) ==
    LET entryData == [id |-> data.id, timestamp |-> data.timestamp,
                      type |-> "symptom",
                      crampsSeverity |-> data.crampsSeverity,
                      bloatingSeverity |-> data.bloatingSeverity]
    IN IF isUpdate(data) THEN updateLogEntry(entryData)
       ELSE createLogEntry(entryData)

handleSaveIntake(data) ==
    LET entryData == [id |-> data.id, timestamp |-> data.timestamp,
                      type |-> "intake", item |-> data.item]
    IN IF isUpdate(data) THEN updateLogEntry(entryData)
       ELSE createLogEntry(entryData)

handleSaveStress(data) ==
    LET entryData == [id |-> data.id, timestamp |-> data.timestamp,
                      type |-> "stress", level |-> data.level]
    IN IF isUpdate(data) THEN updateLogEntry(entryData)
       ELSE IF stressLoggedToday
            THEN /\ activeView' = "log"
                 /\ editingEntry' = renderActiveView("log", editingEntry)
                 /\ lastOp' = "refused"
                 /\ UNCHANGED <<logs, stressLoggedToday, nextId, deletedIds>>
            ELSE createLogEntry(entryData)

handleEditEntry(entry) ==
    /\ editingEntry' = entry
    /\ activeView' = CASE entry.type = "symptom" -> "addSymptom"
                       [] entry.type = "intake" -> "addIntake"
                       [] entry.type = "stress" -> "addStress"
    /\ lastOp' = "edit"
    /\ UNCHANGED <<logs, stressLoggedToday, nextId, deletedIds>>

handleCancelEdit ==
    /\ editingEntry' = null
    /\ activeView' = "log"
    /\ lastOp' = "cancel"
    /\ UNCHANGED <<logs, stressLoggedToday, nextId, deletedIds>>

startsWithAdd(view) == view \in {"addSymptom", "addIntake", "addStress"}

\* Mutant: the branch that cancels the edit is missing.
handleNavClickNoCancel(id) ==
    /\ lastOp' = "nav"
    /\ UNCHANGED <<logs, stressLoggedToday, nextId, deletedIds>>
    /\ IF id = "addStress" /\ stressLoggedToday /\ editingEntry = null
       THEN UNCHANGED <<activeView, editingEntry>>
       ELSE /\ activeView' = id
            /\ editingEntry' =
                  renderActiveView(id, IF id \in {"log", "chart"}
                                       THEN null ELSE editingEntry)

handleNavClick(id) ==
    /\ lastOp' = "nav"
    /\ UNCHANGED <<logs, stressLoggedToday, nextId, deletedIds>>
    /\ IF id = "addStress" /\ stressLoggedToday /\ editingEntry = null
       THEN UNCHANGED <<activeView, editingEntry>>
       ELSE IF editingEntry # null /\ startsWithAdd(activeView)
               /\ id # activeView
            THEN \* handleCancelEdit(), then setActiveView(id): the closure's
                 \* activeView is an add form, never 'log'.
                 /\ activeView' = id
                 /\ editingEntry' = null
            ELSE /\ activeView' = id
                 /\ editingEntry' =
                       renderActiveView(id, IF id \in {"log", "chart"}
                                            THEN null ELSE editingEntry)

(* ------------------------------ BottomNav ------------------------------ *)
disabledItems ==
    IF stressLoggedToday /\ ~(editingEntry.type = "stress")
    THEN {"addStress"} ELSE {}

(* ------------------------- what App renders ---------------------------- *)
initialData(type) == IF editingEntry.type = type THEN editingEntry ELSE null

SymptomFormShown == activeView = "addSymptom"
IntakeFormShown == activeView = "addIntake"
StressFormShown ==
    activeView = "addStress" /\ ~(stressLoggedToday /\ editingEntry = null)
LogListShown == activeView = "log"

(* ------------------------------- forms --------------------------------- *)
\* handleSubmit of a form whose date/time field holds editedDateTime: the
\* timestamp it saves, NaN when the save is blocked.
timestampToSave(isEditing, editedDateTime) ==
    IF isEditing THEN parseInputTimestamp(editedDateTime) ELSE 0

\* if (isEditing) { ...; if (isNaN(timestampToSave)) { alert(...); return; } }
\* Mutant: the isNaN check is missing.
invalidDateTimeUnchecked(isEditing, ts) == FALSE

invalidDateTime(isEditing, ts) == isEditing /\ isNaN(ts)

\* The date/time field is rendered, and editable, only when editing; for a
\* new entry its state is the empty string.
DateTimeChoices(isEditing) ==
    IF isEditing THEN DateTimeInputs ELSE {InvalidInput}

alertInvalid ==
    /\ lastOp' = "invalid"
    /\ UNCHANGED <<logs, activeView, editingEntry, stressLoggedToday, nextId,
                   deletedIds>>

SymptomFormSubmit(crampsSeverity, bloatingSeverity, editedDateTime) ==
    LET init == initialData("symptom")
        isEditing == init # null
        ts == timestampToSave(isEditing, editedDateTime)
        dataToSave ==
            [id |-> IF isEditing THEN init.id ELSE NoId,
             timestamp |-> ts,
             crampsSeverity |-> IF crampsSeverity > 0 THEN crampsSeverity
                                ELSE undefined,
             bloatingSeverity |-> IF bloatingSeverity > 0
                                  THEN bloatingSeverity ELSE undefined]
    IN
    /\ SymptomFormShown
    /\ editedDateTime \in DateTimeChoices(isEditing)
    /\ lastInput' = [form |-> "symptom", isEditing |-> isEditing,
                     data |-> dataToSave,
                     state |-> [crampsSeverity |-> crampsSeverity,
                                bloatingSeverity |-> bloatingSeverity]]
    /\ IF invalidDateTime(isEditing, ts) THEN alertInvalid
       ELSE handleSaveSymptom(dataToSave)

\* if (!item.trim()) { alert('Please enter the item consumed.'); return; }
\* Mutant: the check of the item is missing.
blankItemUnchecked(item) == FALSE

blankItem(item) == trim(item) = ""

IntakeFormSubmit(item, editedDateTime) ==
    LET init == initialData("intake")
        isEditing == init # null
        ts == timestampToSave(isEditing, editedDateTime)
        dataToSave == [id |-> IF isEditing THEN init.id ELSE NoId,
                       timestamp |-> ts, item |-> trim(item)]
    IN
    /\ IntakeFormShown
    /\ editedDateTime \in DateTimeChoices(isEditing)
    /\ lastInput' = [form |-> "intake", isEditing |-> isEditing,
                     data |-> dataToSave]
    /\ IF blankItem(item) THEN alertInvalid
       ELSE IF invalidDateTime(isEditing, ts) THEN alertInvalid
       ELSE handleSaveIntake(dataToSave)

StressFormSubmit(level, editedDateTime) ==
    LET init == initialData("stress")
        isEditing == init # null
        ts == timestampToSave(isEditing, editedDateTime)
        dataToSave == [id |-> IF isEditing THEN init.id ELSE NoId,
                       timestamp |-> ts, level |-> level]
    IN
    /\ StressFormShown
    /\ editedDateTime \in DateTimeChoices(isEditing)
    /\ lastInput' = [form |-> "stress", isEditing |-> isEditing,
                     data |-> dataToSave]
    /\ IF invalidDateTime(isEditing, ts) THEN alertInvalid
       ELSE handleSaveStress(dataToSave)

\* handleDelete of the form that is shown, the user confirming the dialog.
FormDelete ==
    /\ editingEntry # null
    /\ \/ SymptomFormShown /\ editingEntry.type = "symptom"
       \/ IntakeFormShown /\ editingEntry.type = "intake"
       \/ StressFormShown /\ editingEntry.type = "stress"
    /\ lastInput' = [form |-> "delete", isEditing |-> TRUE,
                     data |-> [id |-> editingEntry.id, timestamp |-> 0]]
    /\ deleteLogEntry(editingEntry.id)

(* --------------------- App: timer and notifications -------------------- *)
\* Mutant: the date of the last reminder is not looked at.
alreadyNotifiedIgnored(todayStr) == FALSE

\* lastNotificationDate !== todayStr, negated.
alreadyNotified(todayStr) == lastNotificationDate = todayStr

\* Mutant: the callback never finds that the day changed.
needsResetNever(lastStressLog) == FALSE

\* lastStressLog ? !isToday(lastStressLog.timestamp) : true, lastStressLog
\* being the sorted stress logs, whose first element the code takes.
needsReset(lastStressLog) ==
    IF Len(lastStressLog) > 0
    THEN ~isToday(lastStressLog[1].timestamp)
    ELSE TRUE

\* Mutant: the stress logs are cut out of the array of the state itself.
filterInPlace(ls) == SelectSeq(ls, IsStress)

\* logs.filter(...).sort(...): filter returns a new array and sort orders
\* that one; this is the array of the state after the call.
filterCopies(ls) == ls

\* The callback of setInterval; its closure holds the state of the render
\* that installed it, which is the current one.
intervalCallback ==
    LET currentHour == getHours(now)
        todayStr == toDateString(now)
        lastStressLog == sortDescending(SelectSeq(logs, IsStress))
        reset == needsReset(lastStressLog) /\ stressLoggedToday
        flagSet == IF reset THEN FALSE
                   ELSE IF ~needsReset(lastStressLog) /\ ~stressLoggedToday
                        THEN checkStressLogStatus(logs)
                        ELSE stressLoggedToday
        dateAfterReset ==
            IF reset /\ lastNotificationDate # NoDate
                     /\ lastNotificationDate # todayStr
            THEN NoDate ELSE lastNotificationDate
        notify == /\ notificationPermission = "granted"
                  /\ currentHour >= 18
                  /\ ~stressLoggedToday
                  /\ ~alreadyNotified(todayStr)
        dateSet == IF notify THEN todayStr ELSE dateAfterReset
        ran == dateSet # lastNotificationDate \/ flagSet # stressLoggedToday
    IN
    /\ lastNotificationDate' = setStoredValue(dateSet)
    /\ stressLoggedToday' =
          useEffect(logs, flagSet, dateSet # lastNotificationDate)
    /\ notifiedDays' =
          IF notify THEN [notifiedDays EXCEPT ![DayOf(now)] = @ + 1]
          ELSE notifiedDays
    /\ lastOp' = IF notify THEN "notify" ELSE "tick"
    /\ lastInput' = NoInput
    /\ logs' = filterCopies(logs)
    /\ effectRequest(ran)
    /\ UNCHANGED <<activeView, editingEntry, now, nextId, deletedIds, chart,
                   dateTimeField>>
    /\ download' = NoDownload

\* Notification.requestPermission().then(setNotificationPermission): the
\* user answers the browser's prompt, or closes it ("default"). A changed
\* notificationPermission runs the effect again, and with it
\* requestNotification() on the browser's new permission.
requestPermissionThen(permission) ==
    LET ran == permission # notificationPermission IN
    /\ promptPending
    /\ browserPermission' =
          IF permission = "default" THEN browserPermission ELSE permission
    /\ notificationPermission' = permission
    /\ promptPending' = (ran /\ permission = "default")
    /\ stressLoggedToday' = useEffect(logs, stressLoggedToday, ran)
    /\ lastOp' = "permission"
    /\ lastInput' = NoInput
    /\ UNCHANGED <<logs, activeView, editingEntry, lastNotificationDate,
                   now, nextId, deletedIds, notifiedDays, chart,
                   dateTimeField>>
    /\ download' = NoDownload

\* The bell button of the header, onClick = requestNotification, disabled
\* when notificationPermission is 'denied'.
bellButton ==
    LET ran == requestNotification # notificationPermission IN
    /\ notificationPermission # "denied"
    /\ notificationPermission' = requestNotification
    /\ promptPending' = (promptPending \/ requestsPermission)
    /\ stressLoggedToday' = useEffect(logs, stressLoggedToday, ran)
    /\ lastOp' = "bell"
    /\ lastInput' = NoInput
    /\ UNCHANGED <<logs, activeView, editingEntry, lastNotificationDate,
                   now, nextId, deletedIds, notifiedDays, chart,
                   dateTimeField, browserPermission>>
    /\ download' = NoDownload

\* The user changes the permission of the site in the browser's settings,
\* behind the page; an open prompt is gone with it. The model has the user
\* do so while the collection has at most MaxLogsAtSettings entries.
browserSettings(permission) ==
    /\ Len(logs) <= MaxLogsAtSettings
    /\ browserPermission # "unsupported"
    /\ permission # browserPermission
    /\ browserPermission' = permission
    /\ promptPending' = FALSE
    /\ lastOp' = "settings"
    /\ lastInput' = NoInput
    /\ UNCHANGED <<logs, activeView, editingEntry, stressLoggedToday,
                   notificationPermission, lastNotificationDate, now, nextId,
                   deletedIds, notifiedDays, chart, dateTimeField>>
    /\ download' = NoDownload

(* ------------------------------ the clock ------------------------------ *)
AdvanceClock ==
    /\ now + ClockStep <= MaxNow
    /\ now' = now + ClockStep
    /\ lastOp' = "clock"
    /\ lastInput' = NoInput
    /\ UNCHANGED <<logs, activeView, editingEntry, stressLoggedToday,
                   notificationPermission, lastNotificationDate, nextId,
                   deletedIds, notifiedDays, chart, dateTimeField,
                   browserPermission, promptPending>>
    /\ download' = NoDownload

(* ------------------------------ DataChart ------------------------------ *)
\* dailyData[dateStr] = { date: dateStr, cramps: null, bloating: null,
\* stress: null }
newPoint(dateStr) ==
    [date |-> dateStr, cramps |-> NoValue, bloating |-> NoValue,
     stress |-> NoValue]

\* Mutant: the severity of the log processed last is taken.
maxSeverityLastWins(current, severity) == severity

\* Mutant: the severity is counted one too high.
maxSeverityOffByOne(current, severity) ==
    Max(IF current = NoValue THEN 0 ELSE current, severity + 1)

\* Math.max(dailyData[dateStr].cramps ?? 0, symptomLog.crampsSeverity)
maxSeverity(current, severity) ==
    Max(IF current = NoValue THEN 0 ELSE current, severity)

\* The body of sortedLogs.forEach; dailyData is the sequence of the values
\* of the object in the order its keys were added in.
processLog(dailyData, log) ==
    LET dateStr == formatTimestampToDateString(log.timestamp)
        withDate ==
            IF \E i \in 1..Len(dailyData) : dailyData[i].date = dateStr
            THEN dailyData
            ELSE Append(dailyData, newPoint(dateStr))
        k == CHOOSE i \in 1..Len(withDate) : withDate[i].date = dateStr
        point == withDate[k]
        updated ==
            IF log.type = "symptom"
            THEN [point EXCEPT
                    !.cramps = IF log.crampsSeverity # undefined
                               THEN maxSeverity(@, log.crampsSeverity)
                               ELSE @,
                    !.bloating = IF log.bloatingSeverity # undefined
                                 THEN maxSeverity(@, log.bloatingSeverity)
                                 ELSE @]
            ELSE IF log.type = "stress"
            THEN [point EXCEPT !.stress = log.level]
            ELSE point
    IN [withDate EXCEPT ![k] = updated]

RECURSIVE forEach(_, _)
forEach(rest, dailyData) ==
    IF rest = <<>> THEN dailyData
    ELSE forEach(Tail(rest), processLog(dailyData, Head(rest)))

\* Object.values(dailyData).sort((a, b) => a.date.localeCompare(b.date))
insertByDate(sorted, point) ==
    LET k == Cardinality({j \in 1..Len(sorted) :
                             localeCompare(sorted[j].date, point.date) <= 0})
    IN SubSeq(sorted, 1, k) \o <<point>>
           \o SubSeq(sorted, k + 1, Len(sorted))

RECURSIVE sortByDateInto(_, _)
sortByDateInto(rest, sorted) ==
    IF rest = <<>> THEN sorted
    ELSE sortByDateInto(Tail(rest), insertByDate(sorted, Head(rest)))

processChartData(ls) ==
    sortByDateInto(forEach(sortAscending(ls), <<>>), <<>>)

\* Mutant: one point is enough for a chart.
notEnoughDataOnlyIfEmpty(chartData) == Len(chartData) < 1

\* if (chartData.length < 2): the notice is rendered instead of the chart.
notEnoughData(chartData) == Len(chartData) < 2

NoChart == [mounted |-> FALSE, chartData |-> <<>>, notice |-> FALSE]

DataChart(ls) ==
    LET chartData == processChartData(ls)
    IN [mounted |-> TRUE, chartData |-> chartData,
        notice |-> notEnoughData(chartData)]

\* renderActiveView, case 'chart': <DataChart logs={logs} />.
renderChart == chart' = IF activeView' = "chart" THEN DataChart(logs')
                        ELSE NoChart

(* ------------------------------- export -------------------------------- *)
\* JSON.stringify of an entry leaves out the fields that are undefined.
stringifyEntry(e) ==
    [f \in {g \in DOMAIN e :
              ~(/\ g \in {"crampsSeverity", "bloatingSeverity"}
                /\ e[g] = undefined)} |-> e[f]]

JSONstringify(ls) == [i \in 1..Len(ls) |-> stringifyEntry(ls[i])]

\* Mutant: logs.sort(...) sorts the array of the state itself.
sortedInPlace(ls) == sortAscending(ls)

\* [...logs] is a copy: the array of the state stays as it is.
spreadLeaves(ls) == ls

handleExportData ==
    /\ IF Len(logs) = 0
       THEN /\ lastOp' = "noData"
            /\ download' = NoDownload
            /\ logs' = logs
       ELSE /\ lastOp' = "export"
            /\ download' = [name |-> toISODateString(now),
                            content |-> JSONstringify(sortAscending(logs))]
            /\ logs' = spreadLeaves(logs)
    /\ UNCHANGED <<activeView, editingEntry, stressLoggedToday, nextId,
                   deletedIds>>

(* ---------------------------- user events ------------------------------ *)
env == <<lastNotificationDate, now, notifiedDays>>

\* The steps after which the effect of App runs again: those that call
\* setLogs.
storesLogs == lastOp' \in {"create", "update", "delete"}

noDownload == download' = NoDownload

\* useEffect(..., [initialData]) of the form that is rendered: it sets
\* editedDateTime to formatTimestampForInput(initialData.timestamp), and to
\* '' when the form has no initialData.
mountForm ==
    LET init ==
            IF \/ activeView' = "addSymptom" /\ editingEntry'.type = "symptom"
               \/ activeView' = "addIntake" /\ editingEntry'.type = "intake"
               \/ activeView' = "addStress" /\ editingEntry'.type = "stress"
            THEN editingEntry' ELSE null
    IN dateTimeField' = IF init # null
                        THEN formatTimestampForInput(init.timestamp)
                        ELSE InvalidInput

NavClick ==
    \E id \in NavIds \ disabledItems :
        /\ handleNavClick(id)
        /\ lastInput' = [form |-> "nav", isEditing |-> editingEntry # null,
                         data |-> NoInput.data, view |-> id]
        /\ UNCHANGED env /\ effectRequest(storesLogs)
        /\ renderChart /\ mountForm /\ noDownload

EditClick ==
    \E i \in 1..Len(logs) :
        /\ LogListShown
        /\ handleEditEntry(logs[i])
        /\ lastInput' = NoInput
        /\ UNCHANGED env /\ effectRequest(storesLogs)
        /\ renderChart /\ mountForm /\ noDownload

CancelClick ==
    /\ SymptomFormShown \/ IntakeFormShown \/ StressFormShown
    /\ handleCancelEdit
    /\ lastInput' = NoInput
    /\ UNCHANGED env /\ effectRequest(storesLogs)
    /\ renderChart /\ mountForm /\ noDownload

SubmitSymptom ==
    \E c \in SeverityLevels, b \in FormBloatingLevels, d \in DateTimeInputs :
        /\ SymptomFormSubmit(c, b, d)
        /\ UNCHANGED env /\ effectRequest(storesLogs)
        /\ renderChart /\ mountForm /\ noDownload

SubmitIntake ==
    \E item \in Items, d \in DateTimeInputs :
        /\ IntakeFormSubmit(item, d)
        /\ UNCHANGED env /\ effectRequest(storesLogs)
        /\ renderChart /\ mountForm /\ noDownload

SubmitStress ==
    \E level \in StressLevels, d \in DateTimeInputs :
        /\ StressFormSubmit(level, d)
        /\ UNCHANGED env /\ effectRequest(storesLogs)
        /\ renderChart /\ mountForm /\ noDownload

DeleteClick ==
    /\ FormDelete
    /\ UNCHANGED env /\ effectRequest(storesLogs)
    /\ renderChart /\ mountForm /\ noDownload

\* The export button of the header, disabled={logs.length === 0}.
ExportClick ==
    /\ Len(logs) # 0
    /\ handleExportData
    /\ lastInput' = NoInput
    /\ UNCHANGED env /\ effectRequest(storesLogs)
    /\ renderChart /\ mountForm

TimerTick == intervalCallback

\* The user allows or blocks; closing the prompt unanswered, which settles
\* the promise with 'default', is left out of the inputs.
PermissionAnswer ==
    \E p \in {"granted", "denied"} : requestPermissionThen(p)

BellClick == bellButton

\* The user allows or blocks the site; a reset to 'ask' is left out of the
\* inputs.
BrowserSettingsChange ==
    \E p \in {"granted", "denied"} : browserSettings(p)

(* --------------------------- specification ----------------------------- *)
\* The state App is in once it is mounted and its effect has run: the
\* 'default' of useState has been through requestNotification().
mountedPermission ==
    /\ browserPermission \in BrowserPermissions
    /\ notificationPermission =
          CASE browserPermission = "granted" -> "granted"
            [] browserPermission = "default" -> "default"
            [] OTHER -> "denied"
    /\ promptPending = (browserPermission = "default")

Init ==
    /\ logs = <<>>
    /\ activeView = "log"
    /\ editingEntry = null
    /\ stressLoggedToday = FALSE
    /\ mountedPermission
    /\ lastNotificationDate = NoDate
    /\ now = StartNow
    /\ nextId = 1
    /\ chart = NoChart
    /\ download = NoDownload
    /\ deletedIds = {}
    /\ notifiedDays = [d \in 0..(NumDays - 1) |-> 0]
    /\ lastOp = "init"
    /\ lastInput = NoInput
    /\ dateTimeField = InvalidInput

Next ==
    \/ NavClick
    \/ EditClick
    \/ CancelClick
    \/ SubmitSymptom
    \/ SubmitIntake
    \/ SubmitStress
    \/ DeleteClick
    \/ ExportClick
    \/ TimerTick
    \/ PermissionAnswer
    \/ BellClick
    \/ BrowserSettingsChange
    \/ AdvanceClock

Spec == Init /\ [][Next]_vars

\* The app with a collection of at most MaxLiveLogs entries: the steps of
\* Next, a save being taken only where the collection stays that small.
LiveNext ==
    \/ NavClick
    \/ EditClick
    \/ CancelClick
    \/ SubmitSymptom /\ Len(logs') <= MaxLiveLogs
    \/ SubmitIntake /\ Len(logs') <= MaxLiveLogs
    \/ SubmitStress /\ Len(logs') <= MaxLiveLogs
    \/ DeleteClick
    \/ ExportClick
    \/ TimerTick
    \/ PermissionAnswer
    \/ BellClick
    \/ BrowserSettingsChange
    \/ AdvanceClock

\* The app stays open: setInterval calls the callback every 5 minutes, so
\* the tick, which is always enabled, is not put off for ever.
LiveSpec == Init /\ [][LiveNext]_vars /\ WF_vars(TimerTick)

(* ------------------- processChartData on any collection ---------------- *)
ChartTimes ==
    {d * DayLen + o : d \in 0..(ChartDays - 1), o \in 0..(ChartTicks - 1)}

ChartEntries ==
    [id : {NoId}, timestamp : ChartTimes, type : {"symptom"},
     crampsSeverity : SeverityLevels \cup {undefined},
     bloatingSeverity : BloatingLevels \cup {undefined}]
    \cup [id : {NoId}, timestamp : ChartTimes, type : {"intake"},
          item : {"tea"}]
    \cup [id : {NoId}, timestamp : ChartTimes, type : {"stress"},
          level : StressLevels]

\* The entries of a collection have ids of their own.
withIds(ls) == [i \in 1..Len(ls) |-> [ls[i] EXCEPT !.id = i]]

\* App holding any collection, in any order, in its list view.
ChartInit ==
    /\ \E n \in 0..MaxChartLogs :
          \E ls \in [1..n -> ChartEntries] : logs = withIds(ls)
    /\ activeView = "log"
    /\ editingEntry = null
    /\ now = StartNow
    /\ stressLoggedToday = checkStressLogStatus(logs)
    /\ browserPermission = "default"
    /\ mountedPermission
    /\ lastNotificationDate = NoDate
    /\ nextId = MaxChartLogs + 1
    /\ chart = NoChart
    /\ download = NoDownload
    /\ deletedIds = {}
    /\ notifiedDays = [d \in 0..(NumDays - 1) |-> 0]
    /\ lastOp = "init"
    /\ lastInput = NoInput
    /\ dateTimeField = InvalidInput

\* The chart item of the navigation bar is clicked.
OpenChart ==
    /\ handleNavClick("chart")
    /\ lastInput' = NoInput
    /\ UNCHANGED env /\ effectRequest(storesLogs)
    /\ renderChart /\ mountForm /\ noDownload

ChartNext == OpenChart

ChartSpec == ChartInit /\ [][ChartNext]_vars

(* ------------- the date/time field of an edit, on any entry ------------ *)
\* App holding one entry of any type and time, in its list view; one more
\* id is left to give.
RoundTripInit ==
    /\ \E e \in ChartEntries : logs = withIds(<<e>>)
    /\ activeView = "log"
    /\ editingEntry = null
    /\ now = StartNow
    /\ stressLoggedToday = checkStressLogStatus(logs)
    /\ mountedPermission
    /\ lastNotificationDate = NoDate
    /\ nextId = MaxId
    /\ chart = NoChart
    /\ download = NoDownload
    /\ deletedIds = {}
    /\ notifiedDays = [d \in 0..(NumDays - 1) |-> 0]
    /\ lastOp = "init"
    /\ lastInput = NoInput
    /\ dateTimeField = InvalidInput

\* The entry is opened for edit, and saved or left.
RoundTripNext ==
    \/ EditClick
    \/ CancelClick
    \/ SubmitSymptom
    \/ SubmitIntake
    \/ SubmitStress

RoundTripSpec == RoundTripInit /\ [][RoundTripNext]_vars

(* ------------------ deleteLogEntry on a stored collection -------------- *)
DeleteTimes == {d * DayLen : d \in 0..(NumDays - 1)}

DeleteEntries ==
    [id : {NoId}, timestamp : DeleteTimes, type : {"symptom"},
     crampsSeverity : {0}, bloatingSeverity : {undefined}]
    \cup [id : {NoId}, timestamp : DeleteTimes, type : {"intake"},
          item : {"tea"}]
    \cup [id : {NoId}, timestamp : DeleteTimes, type : {"stress"},
          level : {0}]

\* The ids deleteLogEntry is called with: those of the entries and one that
\* no entry has.
DeleteIds == 1..(MaxDeleteLogs + 1)

\* App mounted on a collection that earlier saves stored, newest first, in
\* its list view.
DeleteInit ==
    /\ \E n \in 0..MaxDeleteLogs :
          \E ls \in [1..n -> DeleteEntries] :
              logs = withIds(sortDescending(ls))
    /\ activeView = "log"
    /\ editingEntry = null
    /\ now = StartNow
    /\ stressLoggedToday = checkStressLogStatus(logs)
    /\ mountedPermission
    /\ lastNotificationDate = NoDate
    /\ nextId = MaxDeleteLogs + 1
    /\ chart = NoChart
    /\ download = NoDownload
    /\ deletedIds = {}
    /\ notifiedDays = [d \in 0..(NumDays - 1) |-> 0]
    /\ lastOp = "init"
    /\ lastInput = NoInput
    /\ dateTimeField = InvalidInput

\* deleteLogEntry(id) called with the id it is handed, whether or not an
\* entry has it: the handler takes any string.
DeleteCallOf(id) ==
    /\ lastInput' = [form |-> "delete", isEditing |-> editingEntry # null,
                     data |-> [id |-> id, timestamp |-> 0]]
    /\ deleteLogEntry(id)
    /\ UNCHANGED env /\ effectRequest(storesLogs)
    /\ renderChart /\ mountForm /\ noDownload

DeleteCall == \E id \in DeleteIds : DeleteCallOf(id)

\* An entry is opened for edit and left or deleted, or the handler is
\* called.
DeleteNext ==
    \/ EditClick
    \/ CancelClick
    \/ DeleteClick
    \/ DeleteCall

DeleteSpec == DeleteInit /\ [][DeleteNext]_vars

(* ------------------------------- claims -------------------------------- *)
FormNames == {"symptom", "intake", "stress"}
AllIds == 1..(MaxId + 1)

NoDuplicateIds(ls) == Cardinality(Ids(ls)) = Len(ls)

EntryOf(ls, id) == ls[CHOOSE i \in 1..Len(ls) : ls[i].id = id]

RemoveAt(ls, i) == SubSeq(ls, 1, i - 1) \o SubSeq(ls, i + 1, Len(ls))

\* The sequence without its entry of that id, the others in their order.
Without(ls, id) ==
    IF id \in Ids(ls)
    THEN RemoveAt(ls, CHOOSE i \in 1..Len(ls) : ls[i].id = id)
    ELSE ls

\* The entry is the submitted data tagged with the type.
IsDataOfType(e, data, type) ==
    /\ DOMAIN e = DOMAIN data \cup {"type"}
    /\ e.type = type
    /\ \A f \in DOMAIN data : e[f] = data[f]

StressOnDay(ls, day) ==
    \E i \in 1..Len(ls) : IsStress(ls[i]) /\ DayOf(ls[i].timestamp) = day

\* The step saved an edit whose date/time parsed (and, for an intake, whose
\* item is not blank).
EditSaveStep ==
    /\ lastInput'.form \in FormNames
    /\ lastInput'.isEditing
    /\ ~isNaN(lastInput'.data.timestamp)
    /\ lastInput'.form = "intake" => lastInput'.data.item # ""

\* The collection after the step is the one before with the entry of the
\* submitted id replaced by the submitted values, its type kept.
EditApplied ==
    /\ Len(logs') = Len(logs)
    /\ Ids(logs') = Ids(logs)
    /\ \A i \in 1..Len(logs) :
          IF logs[i].id = lastInput'.data.id
          THEN IsDataOfType(EntryOf(logs', logs[i].id), lastInput'.data,
                            logs[i].type)
          ELSE EntryOf(logs', logs[i].id) = logs[i]

\* C1: no two entries of the collection have the same id, and an id leaves
\* the collection only when its entry is deleted (no step gives an entry
\* another id).
C1_IdsUniqueAndStable ==
    [][/\ NoDuplicateIds(logs')
       /\ Ids(logs) \ Ids(logs') \subseteq deletedIds']_vars

C1_Witness == lastOp = "update" /\ Len(logs) = 2

\* C2: a step of createLogEntry adds exactly one entry, whose timestamp is
\* the current time and whose id was never in the collection and is not the
\* id the caller supplied; the entries that were there are unchanged and in
\* their order.
C2_CreateAddsOneFreshEntry ==
    [][lastOp' = "create" =>
        \E i \in 1..Len(logs') :
            /\ logs'[i].timestamp = now
            /\ logs'[i].id \notin Ids(logs) \cup deletedIds
            /\ logs'[i].id # lastInput'.data.id
            /\ RemoveAt(logs', i) = logs]_vars

\* createLogEntry has run on data that carried an id of its own.
C2_Witness ==
    lastOp = "create" /\ lastInput.data.id # NoId /\ Len(logs) = 2

\* C3: saving an edit with a finite timestamp keeps the ids and the number
\* of entries, gives the edited entry the submitted values under its id and
\* type, and leaves the other entries unchanged.
C3_EditSaveReplacesEntry == [][EditSaveStep => EditApplied]_vars

\* C4: a step of deleteLogEntry(id) leaves the collection without the entry
\* of that id, the others in their order; a call with an id that no entry
\* has leaves the collection as it is; and the call returns for every id.
C4_DeleteRemovesExactlyThatEntry ==
    [][/\ lastOp' = "delete" =>
            /\ logs' = Without(logs, lastInput'.data.id)
            /\ lastInput'.data.id \notin Ids(logs) => logs' = logs
       /\ \A id \in DeleteIds : ENABLED DeleteCallOf(id)]_vars

\* The middle one of three entries was deleted, the other two are left in
\* their order, and deleteLogEntry was then called with an id no entry has.
C4_Witness ==
    /\ lastOp = "delete"
    /\ deletedIds = {2}
    /\ Len(logs) = 2 /\ logs[1].id = 1 /\ logs[2].id = 3
    /\ lastInput.data.id = MaxDeleteLogs + 1

\* C5: an id that was deleted is never in the collection again.
C5_DeletionIsPermanent == deletedIds \cap Ids(logs) = {}

\* An entry was created after another had been deleted.
C5_Witness == deletedIds # {} /\ lastOp = "create"

\* C6: submitting a new stress log while the collection holds a stress log
\* of the current calendar day leaves the collection unchanged and shows
\* the list view.
C6_SecondStressOfTheDayRefused ==
    [][(/\ lastInput'.form = "stress"
        /\ ~lastInput'.isEditing
        /\ StressOnDay(logs, DayOf(now)))
       => (logs' = logs /\ activeView' = "log")]_vars

\* C7: with a stress log of yesterday and none of today, creating a stress
\* log is open (App neither disables the form nor refuses the save),
\* whether or not the timer has fired since midnight.
C7_NextDayStressCreationOpen ==
    (StressOnDay(logs, DayOf(now) - 1) /\ ~StressOnDay(logs, DayOf(now)))
        => ~stressLoggedToday

\* C8: no two stress logs of the collection fall on the same calendar day.
C8_AtMostOneStressPerDay ==
    \A i, j \in 1..Len(logs) :
        (i < j /\ IsStress(logs[i]) /\ IsStress(logs[j]))
            => DayOf(logs[i].timestamp) # DayOf(logs[j].timestamp)

\* C9: saving an edit of a stress log with a finite timestamp while stress
\* is logged today is applied to the collection, not refused.
C9_StressEditNeverRefused ==
    [][(EditSaveStep /\ lastInput'.form = "stress" /\ stressLoggedToday)
       => (lastOp' # "refused" /\ EditApplied)]_vars

\* C10: an edit whose date/time does not parse leaves the collection
\* unchanged, and no stored timestamp is NaN.
C10_UnparseableEditRejected ==
    [][/\ \A i \in 1..Len(logs') : ~isNaN(logs'[i].timestamp)
       /\ (/\ lastInput'.form \in FormNames
           /\ lastInput'.isEditing
           /\ isNaN(lastInput'.data.timestamp)) => logs' = logs]_vars

C10_Witness ==
    /\ lastOp = "invalid"
    /\ lastInput.isEditing
    /\ isNaN(lastInput.data.timestamp)
    /\ Len(logs) > 0

\* C11: submitting the intake form, for a new entry or an edit, with an item
\* that is empty after trimming leaves the collection unchanged, and every
\* intake entry of the collection has a non-empty item.
C11_BlankIntakeItemBlocked ==
    [][/\ (lastInput'.form = "intake" /\ lastInput'.data.item = "")
            => logs' = logs
       /\ \A i \in 1..Len(logs') :
             logs'[i].type = "intake" => logs'[i].item # ""]_vars

\* An edit of an intake entry was submitted with a blank item.
C11_Witness ==
    /\ lastOp = "invalid"
    /\ lastInput.form = "intake"
    /\ lastInput.isEditing
    /\ lastInput.data.item = ""
    /\ \E i \in 1..Len(logs) : logs[i].type = "intake"

(* ---------------------------- chart claims ----------------------------- *)
MaxDay == Max(NumDays, ChartDays)

DaysOf(ls) == {DayOf(ls[i].timestamp) : i \in 1..Len(ls)}

\* The calendar day a date string names.
DayOfDate(date) ==
    CHOOSE d \in 0..MaxDay : formatTimestampToDateString(d * DayLen) = date

\* The entries of the collection that fall on the day of the date string.
OnDate(ls, date) ==
    {i \in 1..Len(ls) : DayOf(ls[i].timestamp) = DayOfDate(date)}

MaxOf(S) == CHOOSE m \in S : \A x \in S : x <= m

\* The channel the claims give a date from the values that contribute.
ChannelOf(values) == IF values = {} THEN NoValue ELSE MaxOf(values)

\* C12: the chart has exactly one point for each calendar date an entry of
\* the collection falls on and none for another date, the points are in
\* strictly ascending order of their dates, and a date with intake entries
\* only has a point whose three channels are null.
C12_OnePointPerDateAscending ==
    chart.mounted =>
        LET chartData == chart.chartData IN
        /\ {chartData[i].date : i \in 1..Len(chartData)}
              = {formatTimestampToDateString(logs[i].timestamp) :
                    i \in 1..Len(logs)}
        /\ Len(chartData) = Cardinality(DaysOf(logs))
        /\ \A i, j \in 1..Len(chartData) :
              i < j => DayOfDate(chartData[i].date)
                          < DayOfDate(chartData[j].date)
        /\ \A i \in 1..Len(chartData) :
              (\A k \in OnDate(logs, chartData[i].date) :
                    logs[k].type = "intake")
                 => /\ chartData[i].cramps = NoValue
                    /\ chartData[i].bloating = NoValue
                    /\ chartData[i].stress = NoValue

\* C13: the cramps channel of a point is the greatest crampsSeverity of the
\* symptom logs of its date that define the field and null when there is
\* none, and likewise the bloating channel with bloatingSeverity; intake
\* and stress entries do not contribute.
C13_SeverityChannelsAreDailyMaxima ==
    chart.mounted =>
        \A i \in 1..Len(chart.chartData) :
            LET point == chart.chartData[i]
                symptoms == {k \in OnDate(logs, point.date) :
                                logs[k].type = "symptom"}
            IN /\ point.cramps = ChannelOf(
                     {logs[k].crampsSeverity : k \in symptoms}
                         \ {undefined})
               /\ point.bloating = ChannelOf(
                     {logs[k].bloatingSeverity : k \in symptoms}
                         \ {undefined})

\* A date with two symptom logs, the higher cramps and the higher bloating
\* severity in the earlier one, and a stress log.
C13_Witness ==
    /\ chart.mounted
    /\ \E i, j, k \in 1..Len(logs) :
          /\ logs[i].type = "symptom" /\ logs[j].type = "symptom"
          /\ logs[k].type = "stress"
          /\ DaysOf(logs) = {DayOf(logs[i].timestamp)}
          /\ logs[i].timestamp < logs[j].timestamp
          /\ logs[i].crampsSeverity = 1 /\ logs[j].crampsSeverity = 0
          /\ logs[i].bloatingSeverity = 1 /\ logs[j].bloatingSeverity = 0

\* The symptom entry the last step saved.
savedId == IF lastOp = "create" THEN nextId - 1 ELSE lastInput.data.id

\* C14: when the symptom form saved an entry with cramps (or bloating)
\* severity 0 and it is the only symptom entry of its day, the chart point
\* of that day has that channel equal to 0.
C14_ZeroSeverityIsCharted ==
    (/\ lastInput.form = "symptom"
     /\ lastOp \in {"create", "update"})
    => LET saved == EntryOf(logs, savedId)
           day == DayOf(saved.timestamp)
           only == \A i \in 1..Len(logs) :
                      (logs[i].type = "symptom"
                         /\ DayOf(logs[i].timestamp) = day)
                      => logs[i].id = savedId
           chartData == processChartData(logs)
           point == chartData[CHOOSE i \in 1..Len(chartData) :
                                 DayOfDate(chartData[i].date) = day]
       IN only => /\ lastInput.state.crampsSeverity = 0
                       => point.cramps = 0
                  /\ lastInput.state.bloatingSeverity = 0
                       => point.bloating = 0

\* C15: the stress channel of a point is null when no stress log falls on
\* its date, and otherwise the level of the stress log of that date with
\* the greatest timestamp (of those, the one given last).
C15_StressChannelIsLatestOfDay ==
    chart.mounted =>
        \A i \in 1..Len(chart.chartData) :
            LET point == chart.chartData[i]
                stress == {k \in OnDate(logs, point.date) :
                              logs[k].type = "stress"}
                last == CHOOSE k \in stress :
                           \A m \in stress \ {k} :
                              \/ logs[m].timestamp < logs[k].timestamp
                              \/ /\ logs[m].timestamp = logs[k].timestamp
                                 /\ m < k
            IN point.stress = IF stress = {} THEN NoValue
                              ELSE logs[last].level

\* Two stress logs of one date with different levels, the later one given
\* first.
C15_Witness ==
    /\ chart.mounted
    /\ \E i, j \in 1..Len(logs) :
          /\ i < j
          /\ logs[i].type = "stress" /\ logs[j].type = "stress"
          /\ DayOf(logs[i].timestamp) = DayOf(logs[j].timestamp)
          /\ logs[i].timestamp > logs[j].timestamp
          /\ logs[i].level # logs[j].level

\* The entries a point stands for: a symptom entry with its cramps and
\* bloating values that are not null, and a stress entry when its stress
\* value is not null, on the date of the point.
EntriesOfPoint(point) ==
    LET timestamp == DayOfDate(point.date) * DayLen IN
    <<[id |-> NoId, timestamp |-> timestamp, type |-> "symptom",
       crampsSeverity |-> IF point.cramps = NoValue THEN undefined
                          ELSE point.cramps,
       bloatingSeverity |-> IF point.bloating = NoValue THEN undefined
                            ELSE point.bloating]>>
    \o (IF point.stress = NoValue THEN <<>>
        ELSE <<[id |-> NoId, timestamp |-> timestamp, type |-> "stress",
                level |-> point.stress]>>)

RECURSIVE AggregateInverse(_)
AggregateInverse(points) ==
    IF points = <<>> THEN <<>>
    ELSE EntriesOfPoint(Head(points)) \o AggregateInverse(Tail(points))

\* C16: turning the points of the chart back into entries and aggregating
\* those gives the same dates with the same cramps, bloating and stress
\* values.
C16_AggregationRoundTrip ==
    chart.mounted =>
        processChartData(AggregateInverse(chart.chartData)) = chart.chartData

\* A chart of two dates, one with all its channels set.
C16_Witness ==
    /\ chart.mounted
    /\ Len(chart.chartData) = 2
    /\ \E i \in 1..2 : /\ chart.chartData[i].cramps = 1
                        /\ chart.chartData[i].bloating = 0
                        /\ chart.chartData[i].stress = 1

\* C17: DataChart shows the notice exactly when the entries fall on fewer
\* than two calendar days; an empty collection gives no point and entries
\* of a single day give one point.
C17_ChartNeedsTwoDates ==
    chart.mounted =>
        /\ chart.notice <=> Cardinality(DaysOf(logs)) < 2
        /\ Len(logs) = 0 => chart.chartData = <<>>
        /\ Cardinality(DaysOf(logs)) = 1 => Len(chart.chartData) = 1

\* Several entries of a single day, and the notice.
C17_Witness ==
    /\ chart.mounted
    /\ chart.notice
    /\ Len(logs) > 1
    /\ Len(chart.chartData) = 1

(* ----------------------- export and reminders -------------------------- *)
\* The entry of the document has the values of the entry of the
\* collection, a field that is left out being undefined.
SameEntry(doc, e) ==
    /\ doc.id = e.id /\ doc.timestamp = e.timestamp /\ doc.type = e.type
    /\ e.type = "intake" => doc.item = e.item
    /\ e.type = "stress" => doc.level = e.level
    /\ e.type = "symptom" =>
          \A f \in {"crampsSeverity", "bloatingSeverity"} :
              IF f \in DOMAIN doc THEN doc[f] = e[f] ELSE e[f] = undefined

\* C18: the document of an export has as many entries as the collection,
\* each entry of the collection is in it, and its timestamps do not
\* decrease.
C18_ExportIsCollectionAscending ==
    lastOp = "export" =>
        /\ Len(download.content) = Len(logs)
        /\ \A i \in 1..Len(logs) :
              \E j \in 1..Len(download.content) :
                  SameEntry(download.content[j], logs[i])
        /\ \A j \in 1..(Len(download.content) - 1) :
              download.content[j].timestamp
                 <= download.content[j + 1].timestamp

\* An export of two entries that the collection holds newest first.
C18_Witness ==
    /\ lastOp = "export"
    /\ Len(logs) = 2
    /\ logs[1].timestamp > logs[2].timestamp

\* handleExportData can run, and every way it runs shows the notice, offers
\* no file and leaves the state as it is. The export button is disabled on
\* an empty collection, so no step of the app calls the handler there.
EmptyExportOnlyNotice ==
    /\ ENABLED handleExportData
    /\ ~ENABLED (/\ handleExportData
                 /\ ~(/\ lastOp' = "noData"
                      /\ download' = NoDownload
                      /\ UNCHANGED <<logs, editingEntry, activeView,
                                     stressLoggedToday>>))

\* C19: a step of handleExportData leaves the collection and its order,
\* the entry being edited, the active view and the stress flag as they
\* are, and with an empty collection offers no file and shows the notice.
C19_ExportIsReadOnly ==
    /\ [](Len(logs) = 0 => EmptyExportOnlyNotice)
    /\ [][lastOp' = "export" =>
            UNCHANGED <<logs, editingEntry, activeView,
                        stressLoggedToday>>]_vars

\* An export while an entry is being edited.
C19_Witness ==
    /\ lastOp = "export"
    /\ editingEntry # null
    /\ Len(logs) = 2

\* C20: no calendar day has seen more than one reminder.
C20_OneReminderPerDay ==
    \A d \in DOMAIN notifiedDays : notifiedDays[d] <= 1

\* An evening tick that stays silent after the reminder of the day, with
\* entries in the collection and the stress flag not set.
C20_Witness ==
    /\ lastOp = "tick"
    /\ notifiedDays[DayOf(now)] = 1
    /\ getHours(now) >= 18
    /\ notificationPermission = "granted"
    /\ ~stressLoggedToday
    /\ Len(logs) > 0

(* --------------------------- timer claims ------------------------------ *)
\* C21: a reminder is shown only on a tick at which the permission is
\* granted, the local hour is at least 18 and the collection holds no
\* stress log of the current calendar day.
C21_ReminderOnlyWithoutStressToday ==
    lastOp = "notify" =>
        /\ notificationPermission = "granted"
        /\ getHours(now) >= 18
        /\ ~StressOnDay(logs, DayOf(now))

\* C22: when the flag is true although the collection holds no stress log
\* of the current day (the day changed), the timer brings the app to a state
\* where the flag is false, so that handleSaveStress creates and the stress
\* item of the navigation is enabled; or a stress log of the day has
\* appeared in the meantime.
C22_FlagResetAfterDayChange ==
    (stressLoggedToday /\ ~StressOnDay(logs, DayOf(now)))
        ~> (\/ /\ ~stressLoggedToday
               /\ "addStress" \notin disabledItems
            \/ StressOnDay(logs, DayOf(now)))

\* The day changed under a true flag, and a tick has not yet run.
C22_Witness ==
    /\ lastOp = "clock"
    /\ stressLoggedToday
    /\ StressOnDay(logs, DayOf(now) - 1)
    /\ ~StressOnDay(logs, DayOf(now))

\* C23: a tick of the timer leaves the collection as it is, every entry and
\* the stored order, and the view, the edited entry and the id counter.
C23_TickLeavesCollection ==
    [][lastOp' \in {"tick", "notify"} =>
           /\ logs' = logs
           /\ UNCHANGED <<activeView, editingEntry, nextId>>]_vars

\* A tick ran on a collection of two entries and reset the flag.
C23_Witness ==
    /\ lastOp = "tick"
    /\ Len(logs) = 2
    /\ StressOnDay(logs, DayOf(now) - 1)
    /\ ~stressLoggedToday

(* ---------------------- collection order and flag ---------------------- *)
\* C24: the stored collection is ordered by non-increasing timestamp, in
\* every state reached from the empty collection.
C24_StoredNewestFirst ==
    \A i \in 1..(Len(logs) - 1) : logs[i].timestamp >= logs[i + 1].timestamp

\* An edit gave the older of two entries the later time, and it moved to the
\* front.
C24_Witness ==
    /\ lastOp = "update"
    /\ Len(logs) = 2
    /\ logs[1].id = lastInput.data.id
    /\ logs[1].id < logs[2].id
    /\ logs[1].timestamp > logs[2].timestamp

\* The collection has a stress log, and the one with the greatest timestamp
\* is of the current local calendar day.
LatestStressIsToday ==
    \E i \in 1..Len(logs) :
        /\ IsStress(logs[i])
        /\ \A j \in 1..Len(logs) :
              IsStress(logs[j]) => logs[j].timestamp <= logs[i].timestamp
        /\ DayOf(logs[i].timestamp) = DayOf(now)

\* C25: after a create, an update or a delete (and the effect run that
\* follows it) the flag says whether the collection has a stress log and the
\* latest one is of today.
C25_FlagFollowsLatestStress ==
    lastOp \in {"create", "update", "delete"} =>
        (stressLoggedToday <=> LatestStressIsToday)

\* The only stress log was edited to a date of another day, which made the
\* flag false.
C25_Witness ==
    /\ lastOp = "update"
    /\ lastInput.form = "stress"
    /\ Len(SelectSeq(logs, IsStress)) = 1
    /\ StressOnDay(logs, DayOf(lastInput.data.timestamp))
    /\ DayOf(lastInput.data.timestamp) # DayOf(now)
    /\ ~stressLoggedToday

(* ------------------------- view and edited entry ----------------------- *)
FormOf(type) == CASE type = "symptom" -> "addSymptom"
                  [] type = "intake" -> "addIntake"
                  [] type = "stress" -> "addStress"

\* C26: an entry is edited only while the view is the form of its type;
\* after a create, update, delete or cancel no entry is edited and the view
\* is the list; after a click on the navigation item of another view while
\* an entry was edited, no entry is edited and the view is the clicked one;
\* cancel and navigation leave the collection as it is.
C26_EditOnlyInOwnForm ==
    [][/\ editingEntry' # null => activeView' = FormOf(editingEntry'.type)
       /\ lastOp' \in {"create", "update", "delete", "cancel"} =>
             (editingEntry' = null /\ activeView' = "log")
       /\ (lastOp' = "nav" /\ editingEntry # null
                           /\ lastInput'.view # activeView) =>
             (editingEntry' = null /\ activeView' = lastInput'.view)
       /\ lastOp' \in {"cancel", "nav"} => logs' = logs]_vars

\* The navigation left the form in which an entry was edited for another
\* add form.
C26_Witness ==
    /\ lastOp = "nav"
    /\ lastInput.isEditing
    /\ lastInput.view = "addIntake"
    /\ activeView = "addIntake"
    /\ editingEntry = null
    /\ ~\E i \in 1..Len(logs) : logs[i].type = "intake"

(* ------------------------ date/time round trip ------------------------- *)
\* C27: the date/time field an edit form is opened with parses back to the
\* entry's timestamp rounded down to the whole minute, which is less than a
\* minute before it and on the same local calendar day.
C27_RoundTripIsMinuteFloor ==
    editingEntry # null =>
        LET t == editingEntry.timestamp
            back == parseInputTimestamp(dateTimeField)
        IN /\ back = (t \div MinLen) * MinLen
           /\ t - back < MinLen
           /\ DayOf(back) = DayOf(t)

====
